---- MODULE Spec2Model ----
(***************************************************************************)
(* Model of xrt::task (07_sequence/task.h): the type erased task, the      *)
(* multiple producer / multiple consumer queue, the event wrapping a       *)
(* std::future, the createF submission helper and the worker loop.         *)
(*                                                                         *)
(* Threads are the workers (each runs worker(q)) and the clients (each     *)
(* calls createF, queue::stop, event::get/wait and event::ready).  The     *)
(* mutex is explicit: a critical section is entered by one step and left   *)
(* by the step that runs its body.  A task is named by the number createF  *)
(* gave it; 0 is the empty task (content == nullptr).  A client calls      *)
(* get()/wait() at most once on an event, as std::future requires.         *)
(*                                                                         *)
(* Spec is the queue with the blocking reads of the events, PollSpec adds  *)
(* the polls (event::ready), FairSpec is the queue with its producers and  *)
(* workers under fair scheduling, HandleSpec is the queue with clients     *)
(* that call task::execute on empty tasks.                                 *)
(***************************************************************************)
EXTENDS Integers, Sequences, FiniteSets, TLC

\* ---------------------------------------------------------------- bounds
NumWorkers == 2
NumClients == 2
MaxTasks == 3

Workers == 1..NumWorkers
Clients == {NumWorkers + i : i \in 1..NumClients}
TaskIds == 1..MaxTasks

VARIABLES
    m_tasks,    \* queue::m_tasks, a sequence of task numbers, back() is the last
    m_mutex,    \* queue::m_mutex: 0 when free, else the thread holding it
    m_stop,     \* queue::m_stop
    alive,      \* the queue object has not been destroyed
    wpc,        \* each worker's position in worker() / getWork()
    wt,         \* each worker's local `t` (0: an empty task)
    cpc,        \* each client's position
    ctask,      \* the task or event a client's current call is about
    fn,         \* per task: the argument x its callable f is bound to
    slot,       \* per task: the shared state of its packaged_task / future
    got,        \* per task: what event::get / wait returned (kind "none": not called)
    lastReady,  \* what the last event::ready call returned
    deqCount,   \* history, per task: how many times getWork returned it
    execCount,  \* history, per task: how many times its callable was run
    firstDeq,   \* history: how many tasks addWork had queued when getWork first took one
    stopLen,    \* history: how many tasks addWork had queued when stop first set m_stop
    emptyExec   \* what the last execute() on an empty task did ("none": not called)

vars == <<m_tasks, m_mutex, m_stop, alive, wpc, wt, cpc, ctask, fn, slot, got,
          lastReady, deqCount, execCount, firstDeq, stopLen, emptyExec>>

\* ---------------------------------------------------------------- helpers
Range(s) == {s[i] : i \in 1..Len(s)}

Front(s) == SubSeq(s, 1, Len(s) - 1)

Back(s) == s[Len(s)]

Created == 1..Len(fn)

Pending == [st |-> "pending", val |-> 0]

NoResult == [kind |-> "none", val |-> 0]

\* The callable createF binds, f(x): it returns x*x, or it throws an error that
\* carries x.
Invoke(x, throws) ==
    IF throws THEN [st |-> "failed", val |-> x]
    ELSE [st |-> "fulfilled", val |-> x * x]

\* Mutant: the result goes to the shared state of the first task.
HolderExecuteFirst(t, throws) ==
    [slot EXCEPT ![1] = Invoke(fn[t], throws)]

\* Mutant: an exception of the callable is not stored.
HolderExecuteDrop(t, throws) ==
    IF throws THEN slot ELSE [slot EXCEPT ![t] = Invoke(fn[t], throws)]

\* task_holder<RT>::execute: held() runs the callable of the packaged_task of
\* task t and stores its value or its exception in that task's shared state.
HolderExecute(t, throws) ==
    [slot EXCEPT ![t] = Invoke(fn[t], throws)]

\* Mutant: destroying an unexecuted task leaves its promise pending.
AbandonNever(s) == s

\* Mutant: destroying a task breaks its promise whether it ran or not.
AbandonAlways(s) == [st |-> "abandoned", val |-> 0]

\* ~task of an unexecuted task: ~packaged_task stores broken_promise in the
\* shared state when it was never made ready.
Abandon(s) ==
    IF s.st = "pending" THEN [st |-> "abandoned", val |-> 0] ELSE s

\* std::future::get on a ready shared state.
FutureGet(s) ==
    CASE s.st = "fulfilled" -> [kind |-> "value", val |-> s.val]
      [] s.st = "failed" -> [kind |-> "error", val |-> s.val]
      [] OTHER -> [kind |-> "broken_promise", val |-> 0]

\* condition_variable: the workers blocked in m_work.wait(lk)
Waiting == {w \in Workers : wpc[w] = "waiting"}

\* Mutant: addWork signals nobody.
NotifyNobody == {wpc}

\* Mutant: addWork signals only when the queue was empty before the push.
NotifyOneIfEmpty ==
    IF Waiting = {} \/ m_tasks # <<>> THEN {wpc}
    ELSE {[wpc EXCEPT ![w] = "lock"] : w \in Waiting}

\* m_work.notify_one(): one blocked worker, if any, is woken (it then contends
\* for the mutex again); the outcomes are the possible values of wpc.
NotifyOne ==
    IF Waiting = {} THEN {wpc}
    ELSE {[wpc EXCEPT ![w] = "lock"] : w \in Waiting}

\* Mutant: stop wakes one blocked worker only.
NotifyAllAsOne ==
    IF Waiting = {} THEN wpc
    ELSE [wpc EXCEPT ![CHOOSE w \in Waiting : TRUE] = "lock"]

\* m_work.notify_all()
NotifyAll ==
    [w \in Workers |-> IF wpc[w] = "waiting" THEN "lock" ELSE wpc[w]]

\* ---------------------------------------------------------------- Init
\* queue::queue() : m_stop(false); no worker started, nothing submitted.
Init ==
    /\ m_tasks = <<>>
    /\ m_mutex = 0
    /\ m_stop = FALSE
    /\ alive = TRUE
    /\ wpc = [w \in Workers |-> "off"]
    /\ wt = [w \in Workers |-> 0]
    /\ cpc = [c \in Clients |-> "idle"]
    /\ ctask = [c \in Clients |-> 0]
    /\ fn = <<>>
    /\ slot = <<>>
    /\ got = <<>>
    /\ lastReady = "none"
    /\ deqCount = <<>>
    /\ execCount = <<>>
    /\ firstDeq = 0
    /\ stopLen = 0
    /\ emptyExec = "none"

\* ---------------------------------------------------------------- queue::getWork
\* Mutant: the loop test forgets the shutdown flag.
LoopTestNoStop == m_tasks = <<>>

\* while (!m_stop && m_tasks.empty())
LoopTest == ~m_stop /\ m_tasks = <<>>

\* Mutant: the test of the shutdown flag before the take is left out.
TakeAlways == TRUE

\* Mutant: a task is taken whenever one is queued, stopped or not.
TakeIfAny == m_tasks # <<>>

\* if (!m_stop)
TakeTest == ~m_stop

\* Mutant: the oldest task is taken (first in, first out).
TakeFront(tasks) == tasks[1]

\* m_tasks.back(), moved into the local task
TakeBack(tasks) == Back(tasks)

\* Mutant: two elements are removed.
PopTwo(tasks) == SubSeq(tasks, 1, Len(tasks) - 2)

\* Mutant: the task taken stays in the vector.
PopNothing(tasks) == tasks

\* m_tasks.pop_back()
PopBack(tasks) == Front(tasks)

\* A worker thread is started on worker(q); its first statement calls getWork.
StartWorker(w) ==
    /\ alive
    /\ wpc[w] = "off"
    /\ wpc' = [wpc EXCEPT ![w] = "lock"]
    /\ UNCHANGED <<m_tasks, m_mutex, m_stop, alive, wt, cpc, ctask, fn, slot, got,
                   lastReady, deqCount, execCount, firstDeq, stopLen, emptyExec>>

\* Mutant: getWork goes on without waiting for the mutex to be free.
GetWorkNoLock(w) ==
    /\ wpc[w] = "lock"
    /\ m_mutex' = w
    /\ wpc' = [wpc EXCEPT ![w] = "cs"]
    /\ UNCHANGED <<m_tasks, m_stop, alive, wt, cpc, ctask, fn, slot, got,
                   lastReady, deqCount, execCount, firstDeq, stopLen, emptyExec>>

\* std::unique_lock<std::mutex> lk(m_mutex), and the re-acquisition of the mutex
\* when m_work.wait(lk) returns.
GetWorkLock(w) ==
    /\ wpc[w] = "lock"
    /\ m_mutex = 0
    /\ m_mutex' = w
    /\ wpc' = [wpc EXCEPT ![w] = "cs"]
    /\ UNCHANGED <<m_tasks, m_stop, alive, wt, cpc, ctask, fn, slot, got,
                   lastReady, deqCount, execCount, firstDeq, stopLen, emptyExec>>

\* The loop test holds: m_work.wait(lk) releases the mutex and blocks.
GetWorkWait(w) ==
    /\ wpc[w] = "cs"
    /\ LoopTest
    /\ m_mutex' = 0
    /\ wpc' = [wpc EXCEPT ![w] = "waiting"]
    /\ UNCHANGED <<m_tasks, m_stop, alive, wt, cpc, ctask, fn, slot, got,
                   lastReady, deqCount, execCount, firstDeq, stopLen, emptyExec>>

\* m_work.wait(lk) may return without a notification.
SpuriousWake(w) ==
    /\ wpc[w] = "waiting"
    /\ wpc' = [wpc EXCEPT ![w] = "lock"]
    /\ UNCHANGED <<m_tasks, m_mutex, m_stop, alive, wt, cpc, ctask, fn, slot, got,
                   lastReady, deqCount, execCount, firstDeq, stopLen, emptyExec>>

\* The loop test fails: the local task stays empty when m_stop is set, else it
\* takes m_tasks.back() and pop_back() removes it; returning releases the mutex.
GetWorkReturn(w) ==
    /\ wpc[w] = "cs"
    /\ ~LoopTest
    /\ IF TakeTest
       THEN /\ wt' = [wt EXCEPT ![w] = TakeBack(m_tasks)]
            /\ m_tasks' = PopBack(m_tasks)
            /\ deqCount' = [deqCount EXCEPT ![TakeBack(m_tasks)] = @ + 1]
            /\ firstDeq' = IF firstDeq = 0 THEN Len(fn) ELSE firstDeq
       ELSE /\ wt' = [wt EXCEPT ![w] = 0]
            /\ UNCHANGED <<m_tasks, deqCount, firstDeq>>
    /\ m_mutex' = 0
    /\ wpc' = [wpc EXCEPT ![w] = "ret"]
    /\ UNCHANGED <<m_stop, alive, cpc, ctask, fn, slot, got, lastReady, execCount, stopLen, emptyExec>>

\* ---------------------------------------------------------------- worker
\* Mutant: valid() also asks that the callable has not been run.
ValidUnexecuted(t) == t # 0 /\ execCount[t] = 0

\* task::valid(): content != nullptr
Valid(t) == t # 0

\* Where the worker is after t(): packaged_task stores an exception of the
\* callable in the shared state, so t() returns normally to the loop body.
AfterExecute == "post"

\* if (!t.valid()) break;
WorkerBreak(w) ==
    /\ wpc[w] = "ret"
    /\ ~Valid(wt[w])
    /\ wpc' = [wpc EXCEPT ![w] = "done"]
    /\ UNCHANGED <<m_tasks, m_mutex, m_stop, alive, wt, cpc, ctask, fn, slot, got,
                   lastReady, deqCount, execCount, firstDeq, stopLen, emptyExec>>

\* t(): task::operator() -> task::execute -> content->execute()
WorkerExecute(w, throws) ==
    /\ wpc[w] = "ret"
    /\ Valid(wt[w])
    /\ slot' = HolderExecute(wt[w], throws)
    /\ execCount' = [execCount EXCEPT ![wt[w]] = @ + 1]
    /\ wpc' = [wpc EXCEPT ![w] = AfterExecute]
    /\ UNCHANGED <<m_tasks, m_mutex, m_stop, alive, wt, cpc, ctask, fn, got,
                   lastReady, deqCount, firstDeq, stopLen, emptyExec>>

\* End of the loop body: t is destroyed (~task, ~packaged_task) and the next
\* iteration calls getWork.
WorkerNext(w) ==
    /\ wpc[w] = "post"
    /\ slot' = [slot EXCEPT ![wt[w]] = Abandon(@)]
    /\ wt' = [wt EXCEPT ![w] = 0]
    /\ wpc' = [wpc EXCEPT ![w] = "lock"]
    /\ UNCHANGED <<m_tasks, m_mutex, m_stop, alive, cpc, ctask, fn, got,
                   lastReady, deqCount, execCount, firstDeq, stopLen, emptyExec>>

\* ---------------------------------------------------------------- task::execute on an empty task
\* task::execute is content->execute() with no test of content.  On an empty
\* task (default constructed or moved from) content is nullptr and the virtual
\* call through it has undefined behaviour: the process is killed by a signal,
\* or the call does nothing that can be seen.  No callable exists to be run and
\* no error is reported to the caller.
EmptyExecuteResults == {"killed", "nothing"}

\* A client thread calls execute() (or operator()) on an empty task.
ExecuteEmpty(c) ==
    /\ emptyExec # "killed"
    /\ cpc[c] = "idle"
    /\ ~Valid(ctask[c])
    /\ \E r \in EmptyExecuteResults : emptyExec' = r
    /\ UNCHANGED <<m_tasks, m_mutex, m_stop, alive, wpc, wt, cpc, ctask, fn, slot, got,
                   lastReady, deqCount, execCount, firstDeq, stopLen>>

\* ---------------------------------------------------------------- createF, queue::addWork
\* createF up to the lock of addWork: the packaged_task t binds f and x, the
\* event e takes t.get_future(), and addWork's lock_guard takes the mutex.
\* Tasks are numbered in the order addWork takes the mutex, which is the order
\* they are queued in, and task number i is bound to x = i.
CreateF(c) ==
    /\ alive
    /\ cpc[c] = "idle"
    /\ Len(fn) < MaxTasks
    /\ m_mutex = 0
    /\ m_mutex' = c
    /\ fn' = Append(fn, Len(fn) + 1)
    /\ slot' = Append(slot, Pending)
    /\ got' = Append(got, NoResult)
    /\ deqCount' = Append(deqCount, 0)
    /\ execCount' = Append(execCount, 0)
    /\ cpc' = [cpc EXCEPT ![c] = "add_cs"]
    /\ ctask' = [ctask EXCEPT ![c] = Len(fn) + 1]
    /\ UNCHANGED <<m_tasks, m_stop, alive, wpc, wt, lastReady, firstDeq, stopLen, emptyExec>>

\* Mutant: the task is appended twice.
PushBackTwice(tasks, t) == Append(Append(tasks, t), t)

\* m_tasks.push_back(std::move(t))
PushBack(tasks, t) == Append(tasks, t)

\* The body of addWork; leaving it releases the mutex and createF returns e.
AddWork(c) ==
    /\ cpc[c] = "add_cs"
    /\ m_tasks' = PushBack(m_tasks, ctask[c])
    /\ wpc' \in NotifyOne
    /\ m_mutex' = 0
    /\ cpc' = [cpc EXCEPT ![c] = "idle"]
    /\ ctask' = [ctask EXCEPT ![c] = 0]
    /\ UNCHANGED <<m_stop, alive, wt, fn, slot, got, lastReady, deqCount, execCount,
                   firstDeq, stopLen, emptyExec>>

\* ---------------------------------------------------------------- queue::stop
\* Mutant: stop flips the flag.
StopToggle(old) == ~old

\* m_stop=true
StopFlag(old) == TRUE

\* std::lock_guard<std::mutex> lk(m_mutex) of stop
StopLock(c) ==
    /\ alive
    /\ cpc[c] = "idle"
    /\ m_mutex = 0
    /\ m_mutex' = c
    /\ cpc' = [cpc EXCEPT ![c] = "stop_cs"]
    /\ UNCHANGED <<m_tasks, m_stop, alive, wpc, wt, ctask, fn, slot, got,
                   lastReady, deqCount, execCount, firstDeq, stopLen, emptyExec>>

\* Mutant: stop drains the queue, destroying the queued tasks.
StopDrain(c) ==
    /\ cpc[c] = "stop_cs"
    /\ m_stop' = StopFlag(m_stop)
    /\ stopLen' = IF m_stop THEN stopLen ELSE Len(fn)
    /\ wpc' = NotifyAll
    /\ m_mutex' = 0
    /\ cpc' = [cpc EXCEPT ![c] = "idle"]
    /\ m_tasks' = <<>>
    /\ slot' = [t \in DOMAIN slot |->
                  IF t \in Range(m_tasks) THEN Abandon(slot[t]) ELSE slot[t]]
    /\ UNCHANGED <<alive, wt, ctask, fn, got, lastReady, deqCount,
                   execCount, firstDeq, emptyExec>>

\* The body of stop; leaving it releases the mutex.
Stop(c) ==
    /\ cpc[c] = "stop_cs"
    /\ m_stop' = StopFlag(m_stop)
    /\ stopLen' = IF m_stop THEN stopLen ELSE Len(fn)
    /\ wpc' = NotifyAll
    /\ m_mutex' = 0
    /\ cpc' = [cpc EXCEPT ![c] = "idle"]
    /\ UNCHANGED <<m_tasks, alive, wt, ctask, fn, slot, got, lastReady, deqCount,
                   execCount, firstDeq, emptyExec>>

\* ---------------------------------------------------------------- event
\* The events createF has returned: those of the tasks addWork has queued.
Events == {t \in Created : \A c \in Clients : ~(cpc[c] = "add_cs" /\ ctask[c] = t)}

\* An event is used by one thread at a time.
InGet(t) == \E c \in Clients : cpc[c] = "get" /\ ctask[c] = t

\* event::get and event::wait are both m_future.get(): the call blocks until
\* the shared state is ready.  A client calls it on an event whose future is
\* still valid (get() has not been called on it before).
GetCall(c, t) ==
    /\ cpc[c] = "idle"
    /\ t \in Events
    /\ got[t] = NoResult
    /\ ~InGet(t)
    /\ cpc' = [cpc EXCEPT ![c] = "get"]
    /\ ctask' = [ctask EXCEPT ![c] = t]
    /\ UNCHANGED <<m_tasks, m_mutex, m_stop, alive, wpc, wt, fn, slot, got,
                   lastReady, deqCount, execCount, firstDeq, stopLen, emptyExec>>

\* m_future.get() returns the value or throws the stored exception, and leaves
\* m_future without a shared state.
GetReturn(c) ==
    /\ cpc[c] = "get"
    /\ slot[ctask[c]].st # "pending"
    /\ got' = [got EXCEPT ![ctask[c]] = FutureGet(slot[ctask[c]])]
    /\ cpc' = [cpc EXCEPT ![c] = "idle"]
    /\ ctask' = [ctask EXCEPT ![c] = 0]
    /\ UNCHANGED <<m_tasks, m_mutex, m_stop, alive, wpc, wt, fn, slot,
                   lastReady, deqCount, execCount, firstDeq, stopLen, emptyExec>>

\* Mutant: ready answers true for a stored value only.
ReadyOnlyValue(t) ==
    {IF slot[t].st = "fulfilled" THEN "true" ELSE "false"}

\* event::ready: m_future.wait_for(seconds(0)) == future_status::ready.  On a
\* future that get() has emptied wait_for has undefined behaviour: the call may
\* answer either way or throw future_error(no_state).
ReadyResults(t) ==
    IF got[t] = NoResult
    THEN {IF slot[t].st # "pending" THEN "true" ELSE "false"}
    ELSE {"true", "false", "no_state"}

Ready(c, t) ==
    /\ cpc[c] = "idle"
    /\ t \in Events
    /\ ~InGet(t)
    /\ \E r \in ReadyResults(t) : lastReady' = r
    /\ UNCHANGED <<m_tasks, m_mutex, m_stop, alive, wpc, wt, cpc, ctask, fn, slot, got,
                   deqCount, execCount, firstDeq, stopLen, emptyExec>>

\* ---------------------------------------------------------------- ~queue
\* The queue is destroyed once no thread uses it: ~vector destroys the tasks
\* still in m_tasks, and each ~packaged_task breaks its promise.
DestroyQueue ==
    /\ alive
    /\ m_mutex = 0
    /\ \A w \in Workers : wpc[w] \in {"off", "done"}
    /\ \A c \in Clients : cpc[c] \in {"idle", "get"}
    /\ alive' = FALSE
    /\ slot' = [t \in DOMAIN slot |->
                  IF t \in Range(m_tasks) THEN Abandon(slot[t]) ELSE slot[t]]
    /\ m_tasks' = <<>>
    /\ UNCHANGED <<m_mutex, m_stop, wpc, wt, cpc, ctask, fn, got, lastReady,
                   deqCount, execCount, firstDeq, stopLen, emptyExec>>

\* ---------------------------------------------------------------- specification
WorkerStep(w) ==
    \/ GetWorkLock(w)
    \/ GetWorkWait(w)
    \/ GetWorkReturn(w)
    \/ WorkerBreak(w)
    \/ \E throws \in BOOLEAN : WorkerExecute(w, throws)
    \/ WorkerNext(w)

\* A client inside addWork or stop runs its body.
QueueStep(c) ==
    \/ AddWork(c)
    \/ Stop(c)

\* The queue, its producers and its workers.
QueueNext ==
    \/ \E w \in Workers : StartWorker(w)
    \/ \E w \in Workers : WorkerStep(w)
    \/ \E w \in Workers : SpuriousWake(w)
    \/ \E c \in Clients : CreateF(c)
    \/ \E c \in Clients : StopLock(c)
    \/ \E c \in Clients : QueueStep(c)
    \/ DestroyQueue

\* The queue and the blocking reads of the events.
Next ==
    \/ QueueNext
    \/ \E c \in Clients, t \in TaskIds : GetCall(c, t)
    \/ \E c \in Clients : GetReturn(c)

\* The same with the polls of the events, which change lastReady alone.
PollNext ==
    \/ Next
    \/ \E c \in Clients, t \in TaskIds : Ready(c, t)

\* The queue with clients that also call execute() on empty tasks; nothing
\* runs any more once the process has been killed.
HandleNext ==
    \/ emptyExec # "killed" /\ QueueNext
    \/ \E c \in Clients : ExecuteEmpty(c)

Spec == Init /\ [][Next]_vars

HandleSpec == Init /\ [][HandleNext]_vars

PollSpec == Init /\ [][PollNext]_vars

\* Fair scheduling of the queue's threads: a worker that can take a step again
\* and again takes one (it gets the mutex), and a client inside addWork or stop
\* leaves it.  Starting a worker, starting a call, a spurious wakeup and the
\* destruction of the queue are the application's choice and carry no fairness.
FairSpec ==
    /\ Init
    /\ [][QueueNext]_vars
    /\ \A w \in Workers : SF_vars(WorkerStep(w))
    /\ \A c \in Clients : WF_vars(QueueStep(c))

\* ---------------------------------------------------------------- claims
\* The tasks addWork has queued so far (createF has returned their events).
Pushed == Events

Started == {w \in Workers : wpc[w] # "off"}

\* A getWork call of worker w returns in this step.
Returns(w) == wpc[w] = "cs" /\ wpc'[w] = "ret"

\* The callable of task t is run in this step.
Runs(t) == t \in Created /\ execCount'[t] = execCount[t] + 1

\* C1: dequeue order is most-recently-enqueued-first.  Whenever getWork returns
\* a valid task, the queue is not stopped and the task is the one addWork
\* queued last among the tasks in the queue at that moment (tasks are numbered
\* in the order addWork queues them).  And with one worker, of the tasks that
\* were all queued before the worker took its first, each is run only after
\* every one queued later than it: T3, then T2, then T1.
C1_StackOrder ==
    [][/\ \A w \in Workers :
             (Returns(w) /\ wt'[w] # 0) =>
                 /\ ~m_stop
                 /\ wt'[w] \in Range(m_tasks)
                 /\ \A u \in Range(m_tasks) : u <= wt'[w]
       /\ \A a \in TaskIds :
             (Runs(a) /\ Cardinality(Started) = 1 /\ a <= firstDeq) =>
                 \A b \in (a + 1)..firstDeq : execCount[b] = 1
      ]_vars

\* C1 witness: one worker, three tasks queued before its first getWork
\* returned, and all three run.
C1_Witness ==
    /\ Cardinality(Started) = 1
    /\ firstDeq >= 3
    /\ \A t \in 1..3 : execCount[t] = 1

\* C2: once m_stop is set, every getWork that returns returns an empty task and
\* leaves m_tasks as it was, tasks queued or not, and no worker blocks in
\* getWork: none goes to wait and none stays waiting.
C2_StoppedGetWork ==
    /\ [][\A w \in Workers :
             (m_stop /\ wpc[w] = "cs" /\ wpc'[w] # "cs") =>
                 /\ wpc'[w] = "ret"
                 /\ wt'[w] = 0
                 /\ m_tasks' = m_tasks
         ]_vars
    /\ [](m_stop => Waiting = {})

\* C2 witness: getWork has returned an empty task while tasks remain queued.
C2_Witness ==
    /\ m_stop
    /\ m_tasks # <<>>
    /\ \E w \in Workers : wpc[w] = "ret" /\ wt[w] = 0

\* A client blocked in get()/wait(): its future is not ready.
Blocked(c) == cpc[c] = "get" /\ slot[ctask[c]].st = "pending"

\* No thread can take a step: the workers are not started, finished or blocked
\* on the condition, the clients are between calls or blocked in get().
Stuck ==
    /\ \A w \in Workers : wpc[w] \in {"off", "done", "waiting"}
    /\ \A c \in Clients : cpc[c] = "idle" \/ Blocked(c)

\* The tasks that were queued when stop() set the flag.
QueuedAtStop == IF m_stop THEN 1..stopLen ELSE {}

\* C3 as claimed: with tasks queued, no worker running and stop() then called,
\* a get()/wait() on the event of one of those tasks does not block for good:
\* it is never blocked in a state where no thread can take a step.
C3_AsClaimed ==
    \A c \in Clients :
        (/\ Started = {}
         /\ cpc[c] = "get"
         /\ ctask[c] \in QueuedAtStop
         /\ Stuck) => ~Blocked(c)

\* C3, amended: stop() leaves the queued tasks in the queue, so the result of
\* a queued task stays pending (get()/wait() on it blocks) for as long as the
\* queue exists; when the queue is destroyed every queued task that was never
\* run becomes abandoned, and get()/wait() ends with the abandoned-result
\* failure exactly for those.
C3_AbandonedOnDestroy ==
    \A t \in Created :
        /\ (alive /\ Started = {} /\ t \in QueuedAtStop) => t \in Range(m_tasks)
        /\ t \in Range(m_tasks) => slot[t].st = "pending"
        /\ (~alive /\ t \in Pushed /\ execCount[t] = 0) => slot[t].st = "abandoned"
        /\ slot[t].st = "abandoned" => (~alive /\ execCount[t] = 0)
        /\ got[t].kind = "broken_promise" => slot[t].st = "abandoned"
        /\ (slot[t].st = "abandoned" /\ got[t] # NoResult) => got[t].kind = "broken_promise"

\* C3 witness: tasks queued with no worker started, stop() called, the queue
\* destroyed, and get() on one of the events ended with the abandoned failure.
C3_Witness ==
    /\ m_stop
    /\ Started = {}
    /\ ~alive
    /\ stopLen = MaxTasks
    /\ \E t \in QueuedAtStop : got[t].kind = "broken_promise"

\* C4: each task is returned by getWork at most once, is held by at most one
\* worker and never while it is still queued, and its callable is run at most
\* once.
C4_AtMostOnce ==
    \A t \in Created :
        /\ deqCount[t] <= 1
        /\ execCount[t] <= 1
        /\ Cardinality({w \in Workers : wt[w] = t}) <= 1
        /\ Cardinality({i \in 1..Len(m_tasks) : m_tasks[i] = t}) <= 1
        /\ ~(t \in Range(m_tasks) /\ \E w \in Workers : wt[w] = t)

\* C4 witness: every task was submitted and run once, with two workers having
\* taken tasks and a stop() called.
C4_Witness ==
    /\ Len(fn) = MaxTasks
    /\ \A t \in Created : execCount[t] = 1 /\ deqCount[t] = 1
    /\ Cardinality(Started) >= 2
    /\ m_stop

RECURSIVE SumTo(_, _)
SumTo(f, n) == IF n = 0 THEN 0 ELSE f[n] + SumTo(f, n - 1)

\* The shared counter of the test: each run of a callable adds one.
Counter == SumTo(execCount, Len(execCount))

StopCalled == m_stop \/ \E c \in Clients : cpc[c] = "stop_cs"

Executed(t) == t \in Created /\ execCount[t] = 1

\* C5: completion.  Under fair scheduling, once a task is queued and a worker
\* runs, the task is eventually run unless stop() is called; with all N tasks
\* queued the counter eventually stands at N unless stop() is called, and it
\* never exceeds the number of tasks submitted.
C5_Completion ==
    /\ \A t \in TaskIds :
          (t \in Pushed /\ Started # {}) ~> (Executed(t) \/ StopCalled)
    /\ (Len(fn) = MaxTasks /\ Pushed = Created /\ Started # {})
          ~> (Counter = MaxTasks \/ StopCalled)
    /\ [](Counter <= Len(fn))

\* C5 witness: all N tasks run, the counter is N, stop() never called.
C5_Witness ==
    /\ Counter = MaxTasks
    /\ ~StopCalled
    /\ \A t \in TaskIds : Executed(t)

\* C6: result delivery.  The value in the result slot of a task that ran
\* successfully is the value of that task's own callable, x*x for its own x,
\* and get() on the task's event returns exactly that value.
C6_ResultDelivery ==
    \A t \in Created :
        /\ slot[t].st = "fulfilled" => slot[t].val = fn[t] * fn[t]
        /\ got[t].kind = "value" => (slot[t].st = "fulfilled" /\ got[t].val = fn[t] * fn[t])
        /\ (slot[t].st = "fulfilled" /\ got[t] # NoResult) => got[t].kind = "value"

\* C6 witness: two workers ran tasks, and get() returned the values of two
\* tasks, the later submitted one run first.
C6_Witness ==
    /\ Cardinality(Started) >= 2
    /\ Len(fn) >= 3
    /\ firstDeq >= 2
    /\ got[2] = [kind |-> "value", val |-> 4]
    /\ got[3] = [kind |-> "value", val |-> 9]

\* C7: failure propagation and isolation.  When the callable of a task throws,
\* the task's own slot holds that failure and no other slot changes; the worker
\* stays in its loop (it ends only on an empty task, after stop()); get() on the
\* task's event reports that same failure, and on no other task's event.
C7_FailureIsolation ==
    /\ [][\A w \in Workers, throws \in BOOLEAN :
             WorkerExecute(w, throws) =>
                 /\ throws => slot'[wt[w]] = [st |-> "failed", val |-> fn[wt[w]]]
                 /\ ~throws => slot'[wt[w]].st = "fulfilled"
                 /\ \A u \in Created \ {wt[w]} : slot'[u] = slot[u]
                 /\ wpc'[w] = "post"
         ]_vars
    /\ [][\A w \in Workers : (wpc[w] = "post" /\ wpc'[w] # "post") => wpc'[w] = "lock"]_vars
    /\ [](\A w \in Workers : wpc[w] = "done" => m_stop)
    /\ [](\A t \in Created :
             /\ (slot[t].st = "failed" /\ got[t] # NoResult)
                    => got[t] = [kind |-> "error", val |-> fn[t]]
             /\ got[t].kind = "error" => slot[t].st = "failed")

\* C7 witness: a single worker ran a task that failed, then ran another that
\* succeeded; get() reported the failure of the first and the value of the
\* second.
C7_Witness ==
    /\ Cardinality(Started) = 1
    /\ \E w \in Workers, a \in Created :
          /\ wpc[w] = "post"
          /\ a # wt[w]
          /\ slot[wt[w]].st = "fulfilled"
          /\ got[a] = [kind |-> "error", val |-> fn[a]]

\* C8: the shutdown flag starts unset and is never cleared, and a stop() on a
\* queue already stopped changes nothing of the queue: not the flag, not the
\* tasks, not a worker.
C8_StopOneWay ==
    /\ ~m_stop
    /\ [][m_stop => m_stop']_vars
    /\ [][\A c \in Clients :
             (m_stop /\ cpc[c] = "stop_cs" /\ cpc'[c] = "idle") =>
                 /\ m_stop'
                 /\ m_tasks' = m_tasks
                 /\ wpc' = wpc
                 /\ wt' = wt
                 /\ slot' = slot
         ]_vars

\* C8 witness: a second stop() is in its critical section on a stopped queue
\* that still holds tasks, while a worker is running.
C8_Witness ==
    /\ m_stop
    /\ m_tasks # <<>>
    /\ \E c \in Clients : cpc[c] = "stop_cs"
    /\ \E w \in Workers : wpc[w] \notin {"off", "done"}

Written(t) == IF slot[t].st # "pending" THEN "true" ELSE "false"

\* C9 as claimed: every ready() call returns true iff the slot has been written.
C9_AsClaimed ==
    [][\A c \in Clients, t \in TaskIds : Ready(c, t) => lastReady' = Written(t)]_vars

\* C9, amended: ready() returns at once and changes nothing but its own
\* result; on an event whose future get()/wait() has not consumed it returns
\* false while the slot is unwritten and true once it is written (a value, a
\* failure, or the broken promise of an abandoned task).
C9_ReadyPoll ==
    [][\A c \in Clients, t \in TaskIds :
          Ready(c, t) =>
              /\ got[t] = NoResult => lastReady' = Written(t)
              /\ cpc'[c] = "idle"
              /\ slot' = slot
              /\ got' = got
      ]_vars

\* C9 witness: no future consumed, a poll has answered true, and a slot is
\* written while another is not.
C9_Witness ==
    /\ lastReady = "true"
    /\ \A t \in Created : got[t] = NoResult
    /\ \E t \in Pushed : slot[t].st = "failed"
    /\ \E t \in Pushed : slot[t].st = "pending"

\* C10: graceful worker exit.  Under fair scheduling every started worker ends
\* its loop once m_stop is set; and from the moment a worker calls getWork with
\* the flag set it holds no task, never waits and runs no callable.
C10_GracefulExit ==
    /\ \A w \in Workers : (m_stop /\ wpc[w] # "off") ~> (wpc[w] = "done")
    /\ [][\A w \in Workers :
             ((m_stop /\ wpc[w] \in {"lock", "cs"}) \/ (wpc[w] = "ret" /\ wt[w] = 0)) =>
                 /\ wt'[w] = 0
                 /\ wpc'[w] \in {"lock", "cs", "ret", "done"}
                 /\ (wpc'[w] = "ret" => m_stop)
         ]_vars
    /\ [][\A w \in Workers : wpc[w] = "done" => wpc'[w] = "done"]_vars

\* C10 witness: both workers have ended their loops after stop(), one of them
\* having run a task, with a task left in the queue.
C10_Witness ==
    /\ m_stop
    /\ \A w \in Workers : wpc[w] = "done"
    /\ m_tasks # <<>>
    /\ \E t \in Created : execCount[t] = 1

\* The handle owns a callable that has not been run.
OwnsUnexecuted(t) == t # 0 /\ execCount[t] = 0

\* C11 as claimed: valid() is true exactly when the handle owns an unexecuted
\* callable, on every handle a worker holds after getWork and after execute().
C11_AsClaimed ==
    \A w \in Workers :
        wpc[w] \in {"ret", "post"} => (Valid(wt[w]) <=> OwnsUnexecuted(wt[w]))

\* C11, amended: valid() is true exactly when the handle owns a callable, run
\* or not.  The handle getWork returns is valid when it took a task from the
\* queue (a task not yet run) and invalid when it is the default constructed
\* one of a stopped queue; the handle createF builds is valid and is invalid
\* once addWork has moved from it; and after execute() has run on a handle,
\* valid() on it is still true.
C11_ValidOwns ==
    /\ [][\A w \in Workers :
             Returns(w) =>
                 /\ Valid(wt'[w]) <=> ~m_stop
                 /\ Valid(wt'[w]) => OwnsUnexecuted(wt'[w])
         ]_vars
    /\ [][\A c \in Clients :
             (cpc[c] = "add_cs" /\ cpc'[c] # "add_cs") =>
                 /\ Valid(ctask[c])
                 /\ OwnsUnexecuted(ctask[c])
                 /\ ~Valid(ctask'[c])
         ]_vars
    /\ [](\A w \in Workers :
             wpc[w] = "post" => (Valid(wt[w]) /\ execCount[wt[w]] = 1))
    /\ [](\A w \in Workers : wpc[w] \in {"off", "done"} => ~Valid(wt[w]))

\* C11 witness: one worker holds a task it has just run, the other holds the
\* empty task getWork returned on the stopped queue.
C11_Witness ==
    /\ \E w \in Workers : wpc[w] = "post" /\ execCount[wt[w]] = 1
    /\ \E w \in Workers : wpc[w] = "ret" /\ wt[w] = 0
    /\ m_stop

\* C12: misuse detection.  A call of execute() on an empty task (default
\* constructed or moved from) is detected and reported as an error: no such
\* call ends with the process killed or with nothing having happened.
C12_AsClaimed == emptyExec \in {"none", "reported"}

\* The tasks addWork queued after stop() had set the flag.
QueuedAfterStop == IF m_stop THEN {t \in Pushed : t > stopLen} ELSE {}

\* C13: post-shutdown enqueue.  An addWork on a stopped queue appends its task
\* to m_tasks like any other; a task queued after stop() is never returned by
\* getWork, is held by no worker and is never run, it stays in the queue for
\* as long as the queue exists, and its result is never a value (nor a failure
\* of the callable), in the slot or from get().
C13_PostShutdownEnqueue ==
    /\ [][\A c \in Clients :
             (m_stop /\ cpc[c] = "add_cs" /\ cpc'[c] # "add_cs") =>
                 /\ m_tasks' = Append(m_tasks, ctask[c])
                 /\ cpc'[c] = "idle"
         ]_vars
    /\ [](\A t \in QueuedAfterStop :
             /\ deqCount[t] = 0
             /\ execCount[t] = 0
             /\ \A w \in Workers : wt[w] # t
             /\ alive => t \in Range(m_tasks)
             /\ slot[t].st \in {"pending", "abandoned"}
             /\ got[t].kind \in {"none", "broken_promise"})

\* C13 witness: a task was queued after stop(), after which both workers ended
\* their loops, one of them having run a task queued before stop().
C13_Witness ==
    /\ QueuedAfterStop # {}
    /\ \A w \in Workers : wpc[w] = "done"
    /\ \E t \in 1..stopLen : execCount[t] = 1
    /\ alive

\* createF makes the slot of a new task pending.
SlotCreated ==
    \A c \in Clients :
        (cpc[c] = "idle" /\ cpc'[c] = "add_cs") => slot'[ctask'[c]] = Pending

\* A step changes a slot only from pending, to a value or a failure only in
\* the step that runs the task's callable, or else to abandoned.
SlotStep ==
    \A t \in Created :
        /\ slot[t].st # "pending" => slot'[t] = slot[t]
        /\ (slot[t].st = "pending" /\ slot'[t].st \in {"fulfilled", "failed"}) => Runs(t)
        /\ slot'[t].st \in {"pending", "fulfilled", "failed", "abandoned"}

\* A value or a failure in a slot, or from get(), means the callable has run.
SlotAfterRun ==
    \A t \in Created :
        /\ slot[t].st \in {"fulfilled", "failed"} => execCount[t] = 1
        /\ got[t].kind \in {"value", "error"} => execCount[t] = 1
        /\ got[t] # NoResult => slot[t].st # "pending"

\* A poll of an event whose future was not consumed answers true in this step
\* (a poll is the only step that changes lastReady).
ReadyTrue(t) ==
    /\ lastReady' # lastReady
    /\ lastReady' = "true"
    /\ t \in Created
    /\ got[t] = NoResult
    /\ \E c \in Clients : Ready(c, t)

\* C14 as claimed: the slot is write-once and monotone, and ready() true or
\* get() returning implies that execute() has completed for the task.
C14_AsClaimed ==
    /\ [][SlotCreated /\ SlotStep]_vars
    /\ []SlotAfterRun
    /\ [][\A t \in TaskIds : ReadyTrue(t) => execCount[t] = 1]_vars

\* C14, amended: the slot is write-once and monotone: it starts pending, moves
\* at most once to one of fulfilled, failed or abandoned and never changes
\* afterwards; it becomes fulfilled or failed only in the step that runs the
\* task's callable, so get() returning a value or the callable's failure
\* implies the callable has run; ready() true implies that the callable has
\* run or that the task was abandoned.
C14_WriteOnce ==
    /\ [][SlotCreated /\ SlotStep]_vars
    /\ []SlotAfterRun
    /\ [][\A t \in TaskIds :
             ReadyTrue(t) => (execCount[t] = 1 \/ slot[t].st = "abandoned")]_vars

\* C14 witness: a poll answered true with no future consumed, one slot holds a
\* value, one a failure and one is abandoned, and the workers have destroyed
\* the handles of the tasks they ran.
C14_Witness ==
    /\ lastReady = "true"
    /\ \A t \in Created : got[t] = NoResult
    /\ \E t \in Created : slot[t].st = "fulfilled"
    /\ \E t \in Created : slot[t].st = "failed"
    /\ \E t \in Created : slot[t].st = "abandoned"
    /\ \A w \in Workers : wt[w] = 0

\* A client leaves the body of stop() in this step.
StopReturns(c) == cpc[c] = "stop_cs" /\ cpc'[c] # "stop_cs"

\* C15: stop() changes only the shutdown flag and the set of blocked workers.
\* The step that runs its body sets the flag, moves the workers blocked on the
\* condition (and no other) to re-acquire the mutex, and leaves the queued
\* tasks, their order, every result slot and every worker's task as they
\* were; taking its lock changes none of them either.  As long as the queue
\* exists afterwards, the tasks in it stay in it, in their order, and unrun.
C15_StopFrame ==
    /\ [][\A c \in Clients :
             StopReturns(c) =>
                 /\ m_stop'
                 /\ m_tasks' = m_tasks
                 /\ slot' = slot
                 /\ got' = got
                 /\ wt' = wt
                 /\ execCount' = execCount
                 /\ deqCount' = deqCount
                 /\ \A w \in Workers :
                       wpc'[w] = IF wpc[w] = "waiting" THEN "lock" ELSE wpc[w]
         ]_vars
    /\ [][\A c \in Clients :
             (cpc[c] = "idle" /\ cpc'[c] = "stop_cs") =>
                 /\ m_stop' = m_stop
                 /\ m_tasks' = m_tasks
                 /\ slot' = slot
                 /\ wpc' = wpc
         ]_vars
    /\ [][(m_stop /\ alive') =>
             /\ Len(m_tasks') >= Len(m_tasks)
             /\ SubSeq(m_tasks', 1, Len(m_tasks)) = m_tasks
             /\ \A t \in Range(m_tasks) : execCount'[t] = 0 /\ slot'[t] = Pending
         ]_vars

\* C15 witness: the first stop() has just run its body on a queue that holds
\* two tasks or more and has woken a blocked worker; another worker is about
\* to run a task it took before.
C15_Witness ==
    /\ m_stop
    /\ Len(m_tasks) >= 2
    /\ \A t \in Range(m_tasks) : slot[t] = Pending
    /\ \E w \in Workers : wpc[w] = "lock"
    /\ \E w \in Workers : wpc[w] = "ret" /\ wt[w] # 0
    /\ \A c \in Clients : cpc[c] = "idle"

\* C16: submission never runs the callable.  createF makes one task with a
\* pending slot and appends exactly that one task to the queue; it runs no
\* callable and writes no slot, and it can always finish, with no worker
\* started and on a stopped queue as well; the handle it returns is pending.
\* A callable is run only by a worker, on the task its getWork has returned.
C16_SubmitOnly ==
    /\ [][\A c \in Clients :
             (cpc[c] = "idle" /\ cpc'[c] = "add_cs") =>
                 /\ m_tasks' = m_tasks
                 /\ Len(fn') = Len(fn) + 1
                 /\ slot' = Append(slot, Pending)
                 /\ execCount' = Append(execCount, 0)
         ]_vars
    /\ [][\A c \in Clients :
             (cpc[c] = "add_cs" /\ cpc'[c] # "add_cs") =>
                 /\ m_tasks' = Append(m_tasks, ctask[c])
                 /\ ctask[c] \notin Range(m_tasks)
                 /\ slot' = slot
                 /\ slot[ctask[c]] = Pending
                 /\ execCount' = execCount
                 /\ fn' = fn
         ]_vars
    /\ [](\A c \in Clients : cpc[c] = "add_cs" => ENABLED AddWork(c))
    /\ [][\A t \in Created :
             Runs(t) =>
                 \E w \in Workers :
                     /\ wpc[w] = "ret"
                     /\ wt[w] = t
                     /\ wpc'[w] = "post"
                     /\ deqCount[t] = 1
         ]_vars
    /\ [](\A t \in Created : execCount[t] <= deqCount[t])

\* C16 witness: every task is submitted; one was queued on the stopped queue
\* and stays pending, one was run by a worker that had taken it from getWork.
C16_Witness ==
    /\ Len(fn) = MaxTasks
    /\ Pushed = Created
    /\ \E t \in QueuedAfterStop : slot[t] = Pending
    /\ \E t \in Created : execCount[t] = 1 /\ deqCount[t] = 1

\* The threads inside a lock-protected section of addWork, getWork or stop.
InSection ==
    {w \in Workers : wpc[w] = "cs"} \cup
    {c \in Clients : cpc[c] \in {"add_cs", "stop_cs"}}

\* C17: mutual exclusion on the queue.  At most one thread is inside the
\* lock-protected sections of addWork, getWork and stop, and it is the holder
\* of m_mutex; while the queue exists m_tasks and m_stop change only in a step
\* of the thread that holds the mutex and is inside its section, and the tests
\* of getWork (to wait, to take, to return) are made by the holder; a worker
\* blocked on the condition does not hold the mutex, and a worker inside
\* getWork gives the mutex up only by blocking or by returning.
C17_MutualExclusion ==
    /\ [](/\ Cardinality(InSection) <= 1
          /\ \A th \in InSection : m_mutex = th
          /\ m_mutex # 0 => m_mutex \in InSection
          /\ \A w \in Workers : wpc[w] = "waiting" => m_mutex # w)
    /\ [][((m_tasks' # m_tasks \/ m_stop' # m_stop) /\ alive') =>
             /\ m_mutex \in InSection
             /\ m_mutex \notin InSection'
             /\ m_mutex' = 0
         ]_vars
    /\ [][\A w \in Workers :
             (wpc[w] = "cs" /\ wpc'[w] # "cs") =>
                 /\ m_mutex = w
                 /\ m_mutex' = 0
                 /\ wpc'[w] \in {"waiting", "ret"}
         ]_vars

\* C17 witness: a worker is inside getWork's section on a queue that holds
\* tasks while the other worker, woken or new, waits for the mutex.
C17_Witness ==
    /\ m_tasks # <<>>
    /\ \E w \in Workers :
          /\ wpc[w] = "cs"
          /\ m_mutex = w
          /\ \E v \in Workers \ {w} : wpc[v] = "lock"

\* The workers that are on their way to test the queue: woken or new, they
\* wait for the mutex or hold it.
Awake == {w \in Workers : wpc[w] \in {"lock", "cs"}}

\* C18: no lost wakeup.  In no state is the queue non-empty, the flag unset
\* and every started worker blocked on the condition; more, while a task is
\* queued and the flag is unset, a worker is blocked on the condition only if
\* another worker is on its way to the queue.  And no worker is blocked on the
\* condition once the flag is set.
C18_NoLostWakeup ==
    /\ (m_tasks # <<>> /\ ~m_stop /\ Started # {}) =>
           \E w \in Started : wpc[w] # "waiting"
    /\ (m_tasks # <<>> /\ ~m_stop /\ Waiting # {}) => Awake # {}
    /\ m_stop => Waiting = {}

\* C18 witness: one task is queued and none was taken yet; one worker is
\* blocked on the condition while the other is on its way to the queue.
C18_Witness ==
    /\ ~m_stop
    /\ Len(m_tasks) = 1
    /\ m_mutex = 0
    /\ \E w \in Workers : wpc[w] = "waiting"
    /\ \E w \in Workers : wpc[w] = "lock"
    /\ \A t \in Created : deqCount[t] = 0

\* Worker w is about to leave the loop of getWork and to take a task.
AboutToTake(w) == wpc[w] = "cs" /\ ~LoopTest /\ TakeTest

\* C19: getWork never removes from an empty collection.  A worker that is
\* about to take finds the flag unset and a task queued; every getWork that
\* returns a task or changes m_tasks does so with the flag unset, takes the
\* last element of a non-empty m_tasks and removes exactly that one; and a
\* worker that tests an empty queue leaves it empty and gets no task: it
\* blocks, or returns the empty task when the flag is set.
C19_NeverPopEmpty ==
    /\ [](\A w \in Workers : AboutToTake(w) => (~m_stop /\ m_tasks # <<>>))
    /\ [][\A w \in Workers :
             (Returns(w) /\ (wt'[w] # 0 \/ m_tasks' # m_tasks)) =>
                 /\ ~m_stop
                 /\ Len(m_tasks) >= 1
                 /\ wt'[w] = m_tasks[Len(m_tasks)]
                 /\ m_tasks' = SubSeq(m_tasks, 1, Len(m_tasks) - 1)
         ]_vars
    /\ [][\A w \in Workers :
             (wpc[w] = "cs" /\ wpc'[w] # "cs" /\ m_tasks = <<>>) =>
                 /\ m_tasks' = <<>>
                 /\ wt'[w] = 0
                 /\ wpc'[w] = IF m_stop THEN "ret" ELSE "waiting"
         ]_vars

\* C19 witness: one worker has taken the only task of the queue and the other,
\* woken for it or new, is inside getWork on the now empty queue, the flag
\* unset.
C19_Witness ==
    /\ ~m_stop
    /\ m_tasks = <<>>
    /\ \E w \in Workers :
          /\ wpc[w] = "ret"
          /\ wt[w] # 0
          /\ \E v \in Workers \ {w} : wpc[v] = "cs"

\* The places of a submitted task: in the queue, in the hands of a worker that
\* took it and has not run it yet, run, or destroyed unrun with the queue.
IsQueued(t) == t \in Range(m_tasks)

IsHeld(t) == execCount[t] = 0 /\ \E w \in Workers : wt[w] = t

IsFinished(t) == execCount[t] >= 1

IsDestroyed(t) == ~alive /\ slot[t].st = "abandoned"

PlacesOf(t) ==
    (IF IsQueued(t) THEN 1 ELSE 0) + (IF IsHeld(t) THEN 1 ELSE 0)
        + (IF IsFinished(t) THEN 1 ELSE 0) + (IF IsDestroyed(t) THEN 1 ELSE 0)

\* C20: task conservation.  Every submitted task is in exactly one place, a
\* task not yet submitted is in none; the queue holds no task twice and no
\* two workers hold the same task; and while the queue exists the number of
\* tasks queued plus the number held by workers plus the number run equals the
\* number submitted (the tasks the queue's destruction destroys unrun are
\* counted as destroyed from then on).
C20_Conservation ==
    /\ \A t \in Pushed : PlacesOf(t) = 1
    /\ \A t \in Created \ Pushed : PlacesOf(t) = 0
    /\ Len(m_tasks) = Cardinality(Range(m_tasks))
    /\ \A t \in Created : Cardinality({w \in Workers : wt[w] = t}) <= 1
    /\ Range(m_tasks) \subseteq Pushed
    /\ \A w \in Workers : wt[w] # 0 => wt[w] \in Pushed
    /\ alive =>
          Len(m_tasks) + Cardinality({t \in Pushed : IsHeld(t)}) + Counter
              = Cardinality(Pushed)
    /\ Cardinality({t \in Pushed : IsQueued(t)}) + Cardinality({t \in Pushed : IsHeld(t)})
          + Cardinality({t \in Pushed : IsFinished(t)})
          + Cardinality({t \in Pushed : IsDestroyed(t)}) = Cardinality(Pushed)

\* C20 witness: of three submitted tasks one is queued, one is held by a
\* worker that has not run it yet and one is run, with the other worker
\* inside getWork and a stop() called.
C20_Witness ==
    /\ Cardinality(Pushed) = 3
    /\ \E t \in Pushed : IsQueued(t)
    /\ \E t \in Pushed : IsHeld(t)
    /\ \E t \in Pushed : IsFinished(t)
    /\ \E w \in Workers : wpc[w] = "cs"
    /\ m_stop

====
